---- MODULE Spec2Model ----
(***************************************************************************)
(* Recurring-event materialization of makerspace-rsvp: the occurrence      *)
(* generator of app/lib/recurrence.ts and the series handlers of           *)
(* app/routes/admin.series.$id.tsx working on the events / rsvps tables.   *)
(*                                                                         *)
(* A date string "YYYY-MM-DD" is modelled by the integer YYYYMMDD: for     *)
(* four-digit years the lexical order of the zero-padded strings is the    *)
(* order of these integers.  0 stands for null / "" (both falsy in the     *)
(* code), and 0 also stands for a null or absent maxOccurrences.           *)
(***************************************************************************)
EXTENDS Integers, Sequences, FiniteSets, TLC

----------------------------------------------------------------------------
(* Pure date string utilities                                              *)

\* parseDateString: split on "-", month made 0-indexed
parseDateString(dateStr) ==
    [year  |-> dateStr \div 10000,
     month |-> ((dateStr \div 100) % 100) - 1,
     day   |-> dateStr % 100]

\* formatDateString: year, 0-indexed month, day -> "YYYY-MM-DD"
formatDateString(year, month, day) ==
    year * 10000 + (month + 1) * 100 + day

\* Days since 1970-01-01 of the proleptic Gregorian date y-m-d (m in 1..12);
\* d may lie outside the month, as the Date constructor accepts.
DaysFromCivil(y, m, d) ==
    LET yy  == IF m <= 2 THEN y - 1 ELSE y
        era == yy \div 400
        yoe == yy - era * 400
        mp  == IF m > 2 THEN m - 3 ELSE m + 9
        doy == (153 * mp + 2) \div 5 + d - 1
        doe == yoe * 365 + yoe \div 4 - yoe \div 100 + doy
    IN  era * 146097 + doe - 719468

\* Inverse of DaysFromCivil: [year, month (0-indexed), day]
CivilFromDays(z0) ==
    LET z   == z0 + 719468
        era == z \div 146097
        doe == z - era * 146097
        yoe == (doe - doe \div 1460 + doe \div 36524 - doe \div 146096) \div 365
        doy == doe - (365 * yoe + yoe \div 4 - yoe \div 100)
        mp  == (5 * doy + 2) \div 153
        d   == doy - (153 * mp + 2) \div 5 + 1
        m   == IF mp < 10 THEN mp + 3 ELSE mp - 9
        y   == yoe + era * 400 + (IF m <= 2 THEN 1 ELSE 0)
    IN  [year |-> y, month |-> m - 1, day |-> d]

\* Date.UTC(year, month, day) counted in days: month and day are normalised
DateUTC(year, month, day) ==
    DaysFromCivil(year + (month \div 12), (month % 12) + 1, 1) + day - 1

\* new Date(ms).getUTCDay()
getUTCDay(z) == (z + 4) % 7

\* getDaysInMonth: day 0 of the next month is the last day of this month
getDaysInMonth(year, month) ==
    CivilFromDays(DateUTC(year, month + 1, 0)).day

getDayOfWeek(year, month, day) ==
    getUTCDay(DateUTC(year, month, day))

compareDateStrings(a, b) ==
    IF a < b THEN -1 ELSE IF a > b THEN 1 ELSE 0

addDaysToDateString(dateStr, days) ==
    LET p    == parseDateString(dateStr)
        \* formatDateString of the UTC year, month and day of a Date
        formatted(date) == formatDateString(date.year, date.month, date.day)
    IN  formatted(CivilFromDays(DateUTC(p.year, p.month, p.day + days)))

addWeeksToDateString(dateStr, weeks) ==
    addDaysToDateString(dateStr, weeks * 7)

Min(a, b) == IF a <= b THEN a ELSE b

\* Mutant: the day of the month is kept as it is
addMonthsToDateString_NoClamp(dateStr, months) ==
    LET p               == parseDateString(dateStr)
        newMonth        == p.month + months
        newYear         == p.year + (newMonth \div 12)
        normalizedMonth == ((newMonth % 12) + 12) % 12
    IN  formatDateString(newYear, normalizedMonth, p.day)

addMonthsToDateString(dateStr, months) ==
    LET p               == parseDateString(dateStr)
        newMonth        == p.month + months
        newYear         == p.year + (newMonth \div 12)
        normalizedMonth == ((newMonth % 12) + 12) % 12
        daysInNewMonth  == getDaysInMonth(newYear, normalizedMonth)
        newDay          == Min(p.day, daysInNewMonth)
    IN  formatDateString(newYear, normalizedMonth, newDay)

----------------------------------------------------------------------------
(* Recurrence rules                                                        *)
(* A rule is [frequency, daysOfWeek, monthlyPattern]; daysOfWeek is the    *)
(* array in the order supplied (<<>> when absent or empty); monthlyPattern *)
(* is [type, day, weekday, occurrence], type "none" when the rule has no   *)
(* pattern, day 0 when absent (falsy), weekday / occurrence Undefined when *)
(* absent.                                                                 *)

Undefined == -100

NoPattern == [type |-> "none", day |-> 0, weekday |-> Undefined, occurrence |-> Undefined]

WeeklyRule(freq, days) ==
    [frequency |-> freq, daysOfWeek |-> days, monthlyPattern |-> NoPattern]

DayOfMonthRule(d) ==
    [frequency |-> "monthly", daysOfWeek |-> <<>>,
     monthlyPattern |-> [type |-> "dayOfMonth", day |-> d,
                         weekday |-> Undefined, occurrence |-> Undefined]]

WeekdayOfMonthRule(w, n) ==
    [frequency |-> "monthly", daysOfWeek |-> <<>>,
     monthlyPattern |-> [type |-> "weekdayOfMonth", day |-> 0,
                         weekday |-> w, occurrence |-> n]]

----------------------------------------------------------------------------
(* Recurrence calculation                                                  *)

\* getNthWeekdayOfMonth, occurrence -1: scan day = daysInMonth down to 1
RECURSIVE lastWeekdayFrom(_, _, _, _)
lastWeekdayFrom(year, month, weekday, day) ==
    IF day < 1 THEN 0
    ELSE IF getDayOfWeek(year, month, day) = weekday
         THEN formatDateString(year, month, day)
         ELSE lastWeekdayFrom(year, month, weekday, day - 1)

\* getNthWeekdayOfMonth, occurrence n: scan day = 1 up to daysInMonth
RECURSIVE nthWeekdayFrom(_, _, _, _, _, _)
nthWeekdayFrom(year, month, weekday, occurrence, day, count) ==
    IF day > getDaysInMonth(year, month) THEN 0
    ELSE IF getDayOfWeek(year, month, day) = weekday
         THEN IF count + 1 = occurrence
              THEN formatDateString(year, month, day)
              ELSE nthWeekdayFrom(year, month, weekday, occurrence, day + 1, count + 1)
         ELSE nthWeekdayFrom(year, month, weekday, occurrence, day + 1, count)

\* Mutant: a month without the requested occurrence gives its last such weekday
getNthWeekdayOfMonth_LastWhenMissing(year, month, weekday, occurrence) ==
    LET nth == nthWeekdayFrom(year, month, weekday, occurrence, 1, 0)
    IN  IF occurrence = -1 \/ nth = 0
        THEN lastWeekdayFrom(year, month, weekday, getDaysInMonth(year, month))
        ELSE nth

\* The date string, or 0 for null
getNthWeekdayOfMonth(year, month, weekday, occurrence) ==
    IF occurrence = -1
    THEN lastWeekdayFrom(year, month, weekday, getDaysInMonth(year, month))
    ELSE nthWeekdayFrom(year, month, weekday, occurrence, 1, 0)

\* Safety limit of the weekly loops
SafetyLimit == 520

\* Safety limit of the monthly loop, in years
SafetyYears == 10

\* Mutant: the days are taken in the order supplied
sortDaysOfWeek_Unsorted(days) == days

\* Mutant: the comparator is reversed
sortDaysOfWeek_Descending(days) == SortSeq(days, LAMBDA a, b : a > b)

\* rule.daysOfWeek.sort((a, b) => a - b)
sortDaysOfWeek(days) == SortSeq(days, LAMBDA a, b : a < b)

\* "Skip dates before start"
beforeStart(dateStr, startDate) == compareDateStrings(dateStr, startDate) < 0

\* Mutant: the end date of the options is not looked at
pastEndDate_Ignored(dateStr, endDate) == FALSE

\* endDate && compareDateStrings(dateStr, endDate) > 0
pastEndDate(dateStr, endDate) ==
    endDate # 0 /\ compareDateStrings(dateStr, endDate) > 0

\* Mutant: the count is compared with > instead of >=
countReached_OffByOne(count, maxOccurrences) ==
    maxOccurrences # 0 /\ count > maxOccurrences

\* maxOccurrences && count >= maxOccurrences
countReached(count, maxOccurrences) ==
    maxOccurrences # 0 /\ count >= maxOccurrences

\* Mutant: a candidate on the horizon itself ends the generation
pastUntil_Exclusive(dateStr, untilDate) == compareDateStrings(dateStr, untilDate) >= 0

\* compareDateStrings(dateStr, untilDate) > 0
pastUntil(dateStr, untilDate) == compareDateStrings(dateStr, untilDate) > 0

VARIABLES
    today,      \* new Date().toISOString().split("T")[0], fixed in a behaviour
    attendees,  \* attendees rows: the e-mail addresses (email is UNIQUE)
    seriesTbl,  \* event_series rows: series id -> template row, or NoRow
    events,     \* events rows
    rsvps,      \* rsvps rows: [eventId, attendeeId]
    nextId,     \* number of event ids handed out so far (ids are never reused)
    nextSid,    \* number of series ids handed out so far
    nowMs,      \* the millisecond Date.now() returned when it was last read
    proc,       \* the requests in flight: handler position and locals
    opCount,    \* number of requests started
    hist,       \* the last completed requests (history)
    retry,      \* a request that failed and is to be sent again (history)
    gen         \* a call of generateOccurrences: options and result

vars == <<today, attendees, seriesTbl, events, rsvps, nextId, nextSid, nowMs, proc, opCount, hist, retry, gen>>

storeVars == <<today, attendees, seriesTbl, events, rsvps, nextId, nextSid, nowMs, proc, opCount, hist, retry>>

\* getTodayString(): the UTC date of the clock
getTodayString == today

\* getDateMonthsFromNow(months)
getDateMonthsFromNow(months) == addMonthsToDateString(getTodayString, months)

\* untilDate = generateUntil || getDateMonthsFromNow(3); 0 is an absent
\* generateUntil
untilDate(o) ==
    IF o.generateUntil # 0 THEN o.generateUntil ELSE getDateMonthsFromNow(3)

\* The three end conditions checked before a candidate is pushed
stopsAt(o, dateStr, count) ==
    \/ pastEndDate(dateStr, o.endDate)
    \/ countReached(count, o.maxOccurrences)
    \/ pastUntil(dateStr, untilDate(o))

\* Mutant: a biweekly rule steps by one week
weekStep_AlwaysOne(rule) == 1

\* Week step of the rule
weekStep(rule) == IF rule.frequency = "biweekly" THEN 2 ELSE 1

(* The locals of a running generateOccurrences call: rule is options.rule   *)
(* (the loop sorts its daysOfWeek in place), done is set by a return or a   *)
(* break.                                                                   *)
LoopState(rule, weekStartDate, currentDate, year, month) ==
    [rule |-> rule, occurrences |-> <<>>, count |-> 0, done |-> FALSE,
     weekStartDate |-> weekStartDate, weekOffset |-> 0,
     currentDate |-> currentDate, year |-> year, month |-> month]

\* Mutant: the date is put in front of the ones collected so far
push_Prepend(st, dateStr) ==
    [st EXCEPT !.occurrences = <<dateStr>> \o st.occurrences, !.count = st.count + 1]

\* occurrences.push(dateStr); count++
push(st, dateStr) ==
    [st EXCEPT !.occurrences = Append(st.occurrences, dateStr), !.count = st.count + 1]

\* return occurrences / break
stop(st) == [st EXCEPT !.done = TRUE]

\* Weekly / biweekly with specific days: the for loop over the sorted days
\* of the week starting at currentWeekStart, from the i-th day on
RECURSIVE weeklyDaysFor(_, _, _, _)
weeklyDaysFor(o, currentWeekStart, i, st) ==
    IF i > Len(st.rule.daysOfWeek)
    THEN st
    ELSE LET dateStr == addDaysToDateString(currentWeekStart, st.rule.daysOfWeek[i])
         IN  IF beforeStart(dateStr, o.startDate)
             THEN weeklyDaysFor(o, currentWeekStart, i + 1, st)
             ELSE IF stopsAt(o, dateStr, st.count)
                  THEN stop(st)
                  ELSE weeklyDaysFor(o, currentWeekStart, i + 1, push(st, dateStr))

\* Weekly / biweekly with specific days: one iteration of the while loop
weeklyDaysIteration(o, st) ==
    LET currentWeekStart ==
            addWeeksToDateString(st.weekStartDate, st.weekOffset * weekStep(st.rule))
        sorted == [st EXCEPT !.rule.daysOfWeek = sortDaysOfWeek(st.rule.daysOfWeek)]
        after  == weeklyDaysFor(o, currentWeekStart, 1, sorted)
    IN  IF after.done
        THEN after
        ELSE [after EXCEPT !.weekOffset = after.weekOffset + 1,
                           !.done = after.weekOffset + 1 > SafetyLimit]

\* Simple weekly / biweekly (same day of week as the start): one iteration
weeklySimpleIteration(o, st) ==
    IF stopsAt(o, st.currentDate, st.count)
    THEN stop(st)
    ELSE LET pushed == push(st, st.currentDate)
         IN  [pushed EXCEPT
                !.currentDate = addWeeksToDateString(st.currentDate, weekStep(st.rule)),
                !.done = pushed.count > SafetyLimit]

\* Mutant: the day of the month is not clamped to the month's length
monthlyCandidate_NoClamp(pattern, year, month) ==
    IF pattern.type = "dayOfMonth" /\ pattern.day # 0
    THEN formatDateString(year, month, pattern.day)
    ELSE IF /\ pattern.type = "weekdayOfMonth"
            /\ pattern.weekday # Undefined
            /\ pattern.occurrence # Undefined
         THEN getNthWeekdayOfMonth(year, month, pattern.weekday, pattern.occurrence)
         ELSE 0

\* The candidate of one month: a date string, or 0 for null
monthlyCandidate(pattern, year, month) ==
    IF pattern.type = "dayOfMonth" /\ pattern.day # 0
    THEN formatDateString(year, month, Min(pattern.day, getDaysInMonth(year, month)))
    ELSE IF /\ pattern.type = "weekdayOfMonth"
            /\ pattern.weekday # Undefined
            /\ pattern.occurrence # Undefined
         THEN getNthWeekdayOfMonth(year, month, pattern.weekday, pattern.occurrence)
         ELSE 0

\* Mutant: the monthly loop has no safety limit
monthlyIteration_NoLimit(o, st) ==
    LET dateStr   == monthlyCandidate(st.rule.monthlyPattern, st.year, st.month)
        pushes    == dateStr # 0 /\ ~beforeStart(dateStr, o.startDate)
        nextMonth == IF st.month + 1 > 11 THEN 0 ELSE st.month + 1
        nextYear  == IF st.month + 1 > 11 THEN st.year + 1 ELSE st.year
        after     == IF pushes THEN push(st, dateStr) ELSE st
    IN  IF pushes /\ stopsAt(o, dateStr, st.count)
        THEN stop(st)
        ELSE [after EXCEPT !.month = nextMonth, !.year = nextYear]

\* Monthly: one iteration of the while loop
monthlyIteration(o, st) ==
    LET dateStr   == monthlyCandidate(st.rule.monthlyPattern, st.year, st.month)
        pushes    == dateStr # 0 /\ ~beforeStart(dateStr, o.startDate)
        nextMonth == IF st.month + 1 > 11 THEN 0 ELSE st.month + 1
        nextYear  == IF st.month + 1 > 11 THEN st.year + 1 ELSE st.year
        startYear == parseDateString(o.startDate).year
        after     == IF pushes THEN push(st, dateStr) ELSE st
    IN  IF pushes /\ stopsAt(o, dateStr, st.count)
        THEN stop(st)
        ELSE [after EXCEPT !.month = nextMonth, !.year = nextYear,
                           !.done = nextYear - startYear > SafetyYears]

\* The locals when the loop of the rule's frequency class is entered
loopEntry(o) ==
    LET p == parseDateString(o.startDate)
        startDayOfWeek == getDayOfWeek(p.year, p.month, p.day)
    IN  IF o.rule.frequency \in {"weekly", "biweekly"} /\ Len(o.rule.daysOfWeek) > 0
        THEN LoopState(o.rule, addDaysToDateString(o.startDate, -startDayOfWeek),
                       o.startDate, p.year, p.month)
        ELSE IF o.rule.frequency \in {"weekly", "biweekly", "monthly"}
             THEN LoopState(o.rule, o.startDate, o.startDate, p.year, p.month)
             ELSE stop(LoopState(o.rule, o.startDate, o.startDate, p.year, p.month))

\* One iteration of the while loop that the rule selects; a frequency that is
\* none of the three enters no loop
loopIteration(o, st) ==
    IF st.rule.frequency \in {"weekly", "biweekly"}
    THEN IF Len(st.rule.daysOfWeek) > 0
         THEN weeklyDaysIteration(o, st)
         ELSE weeklySimpleIteration(o, st)
    ELSE IF st.rule.frequency = "monthly"
         THEN monthlyIteration(o, st)
         ELSE stop(st)

\* The while (true) loop, run until a return or a break
RECURSIVE runLoop(_, _)
runLoop(o, st) ==
    IF st.done THEN st ELSE runLoop(o, loopIteration(o, st))

\* generateOccurrences(options)
generateOccurrences(o) == runLoop(o, loopEntry(o)).occurrences

Options(rule, startDate, endDate, maxOccurrences, generateUntil) ==
    [rule |-> rule, startDate |-> startDate, endDate |-> endDate,
     maxOccurrences |-> maxOccurrences, generateUntil |-> generateUntil]

----------------------------------------------------------------------------
(* The store and the request handlers                                      *)

\* Bounds of the model
MaxSeries == 2
MaxOps == 3
MaxRsvps == 2
MaxCount == 3
MaxClock == 2

Procs == {1, 2}

SeriesIds == 1..MaxSeries

Attendees == {"a1"}

\* Names an admin can give a new series, names a template can be changed
\* to, and the name typed on a single event
NewNames == {"Open Hack"}

Names == {"Open Hack", "open hack"}

EditedName == "Moved to room B"

\* The name and the date typed on the new-event form
EventNames == {"Open Hack 2026-03-31"}

EventDates == {20260331}

\* slugify: lower-case, runs of other characters become "-", trimmed
slugify(text) ==
    CASE text = "Open Hack" -> "open-hack"
      [] text = "open hack" -> "open-hack"
      [] text = "Moved to room B" -> "moved-to-room-b"
      [] text = "Open Hack 2026-03-31" -> "open-hack-2026-03-31"
      [] OTHER -> text

NoRow == [name |-> "", rule |-> WeeklyRule("none", <<>>), startDate |-> 0,
          endDate |-> 0, maxOccurrences |-> 0, status |-> "none"]

\* `${baseSlug}-${occurrenceDate}`, and the same with `-${Date.now()}` (ts > 0)
Slug(base, date, ts) == [base |-> base, date |-> date, ts |-> ts]

NoSlug == Slug("", 0, 0)

\* A slug string in the form the slugs of instances have here: the string
\* "open-hack-2026-03-31" is `${baseSlug}-${occurrenceDate}` of base
\* "open-hack" and date 2026-03-31
asSlug(text) ==
    CASE text = "open-hack-2026-03-31" -> Slug("open-hack", 20260331, 0)
      [] OTHER -> Slug(text, 0, 0)

Idle ==
    [pc |-> "idle", intent |-> "none", sid |-> 0, series |-> NoRow,
     startFrom |-> 0, ids |-> <<>>, existingDates |-> {},
     todo |-> <<>>, slug |-> NoSlug, created |-> {}, deleted |-> {},
     rerun |-> FALSE, expected |-> {}, eventId |-> 0, attendee |-> "",
     name |-> "", date |-> 0]

NoHist ==
    [intent |-> "none", sid |-> 0, created |-> {}, deleted |-> {}, ok |-> TRUE,
     rerun |-> FALSE, expected |-> {},
     prevIntent |-> "none", prevSid |-> 0, prevOk |-> TRUE]

NoRetry == [pending |-> FALSE, intent |-> "none", sid |-> 0, expected |-> {}]

NoGen == [called |-> FALSE, options |-> Options(WeeklyRule("none", <<>>), 0, 0, 0, 0),
          result |-> <<>>, ruleAfter |-> WeeklyRule("none", <<>>)]

\* Sequence -> set of its elements
Range(s) == {s[i] : i \in 1..Len(s)}

\* The elements of a finite set of integers as an ascending sequence
RECURSIVE SetToSeq(_)
SetToSeq(S) ==
    IF S = {} THEN <<>>
    ELSE LET m == CHOOSE x \in S : \A y \in S : x <= y
         IN  <<m>> \o SetToSeq(S \ {m})

SeriesEvents(sid) == {e \in events : e.seriesId = sid}

\* db.select().from(rsvps).where(eq(rsvps.eventId, id)).get()
hasRsvps(id) == \E r \in rsvps : r.eventId = id

\* format(addMonths(new Date(), n), "yyyy-MM-dd"): date-fns keeps the day of
\* the month, or takes the last day of a shorter month
addMonths(date, n) == addMonthsToDateString(date, n)

\* Rules and bounds an admin submits for a series
SeriesRules ==
    { WeeklyRule("biweekly", <<3>>),
      DayOfMonthRule(31) }

Todays == {20260115}

SeriesStartDates == {20251231, 20260120}

SeriesEndDates == {20260310}

\* endDate: endType === "date" ? endDate : null; maxOccurrences likewise
EndChoices ==
    {[endDate |-> 0, maxOccurrences |-> 0]}
    \cup {[endDate |-> d, maxOccurrences |-> 0] : d \in SeriesEndDates}
    \cup {[endDate |-> 0, maxOccurrences |-> MaxCount]}

StoreInit ==
    /\ today \in Todays
    /\ attendees = {}
    /\ seriesTbl = [i \in SeriesIds |-> NoRow]
    /\ events = {}
    /\ rsvps = {}
    /\ nextId = 0
    /\ nextSid = 0
    /\ nowMs = 1
    /\ proc = [p \in Procs |-> Idle]
    /\ opCount = 0
    /\ hist = NoHist
    /\ retry = NoRetry

\* What the history keeps of a request that returned (ok) or threw (~ok)
Returned(pr, ok) ==
    [intent |-> pr.intent, sid |-> pr.sid, created |-> pr.created,
     deleted |-> pr.deleted, ok |-> ok, rerun |-> pr.rerun, expected |-> pr.expected,
     prevIntent |-> hist.intent, prevSid |-> hist.sid, prevOk |-> hist.ok]

\* What the history keeps of a single-statement request
Single(intent, sid) ==
    Returned([Idle EXCEPT !.intent = intent, !.sid = sid], TRUE)

AllIdle == \A p \in Procs : proc[p].pc = "idle"

\* The handler goes on at position pc, or returns when pc is "idle"
Goto(p, pr, pc) ==
    IF pc = "idle"
    THEN /\ proc' = [proc EXCEPT ![p] = Idle]
         /\ hist' = Returned(pr, TRUE)
    ELSE /\ proc' = [proc EXCEPT ![p] = [pr EXCEPT !.pc = pc]]
         /\ UNCHANGED hist

\* After newOccurrences is computed: the insert loop, or the response
AfterGenerate(p, pr) ==
    Goto(p, pr, IF pr.todo = <<>> THEN "idle" ELSE "ins_check")

\* Mutant: the generated dates are not filtered against the existing ones
filterNew_Unfiltered(occurrences, existingDates) == occurrences

\* .filter((date) => !existingDates.has(date))
filterNew(occurrences, existingDates) ==
    SelectSeq(occurrences, LAMBDA d : d \notin existingDates)

\* select({ date: events.seriesInstanceDate }).where(eq(events.seriesId, seriesId))
instanceDates(sid) == {e.seriesInstanceDate : e \in SeriesEvents(sid)}

\* A request arrives and takes a handler slot
Arrive(p) ==
    /\ proc[p].pc = "idle"
    /\ opCount < MaxOps
    /\ opCount' = opCount + 1

\* Date.now(): the millisecond of the last reading, or a later one
clockReadings ==
    {nowMs} \cup (IF nowMs < MaxClock THEN {nowMs + 1} ELSE {})

\* "Validate recurrence rule" of the new-series form: a weekly or biweekly
\* rule needs at least one day of the week; nothing else is looked at
recurrenceAccepted(rule) ==
    ~(rule.frequency \in {"weekly", "biweekly"} /\ Len(rule.daysOfWeek) = 0)

\* What the handlers store of the end fields of a form:
\* endDate: endType === "date" ? endDate : null, and
\* maxOccurrences: endType === "count" ? maxOccurrences : null
\* Mutant: both fields are stored as typed, whatever the end type
storedEnd_AsTyped(form) ==
    [endDate |-> form.endDate, maxOccurrences |-> form.maxOccurrences]

storedEnd(form) ==
    [endDate |-> IF form.endType = "date" THEN form.endDate ELSE 0,
     maxOccurrences |-> IF form.endType = "count" THEN form.maxOccurrences ELSE 0]

\* ---- new series: validate the form (400 when rejected), insert the series
\* row, then generate the initial occurrences 3 months ahead
CreateSeriesFrom(p, rules, startDates, ends) ==
    /\ nextSid < MaxSeries
    /\ ~retry.pending
    /\ \E name \in NewNames, rule \in rules,
          startDate \in startDates, end \in ends :
         LET sid == nextSid + 1
             row == [name |-> name, rule |-> rule, startDate |-> startDate,
                     endDate |-> end.endDate, maxOccurrences |-> end.maxOccurrences,
                     status |-> "active"]
             occurrences == generateOccurrences(
                 Options(rule, startDate, end.endDate, end.maxOccurrences,
                         addMonths(today, 3)))
         IN  /\ Arrive(p)
             /\ IF recurrenceAccepted(rule)
                THEN /\ nextSid' = sid
                     /\ seriesTbl' = [seriesTbl EXCEPT ![sid] = row]
                     /\ AfterGenerate(p, [Idle EXCEPT !.intent = "create-series",
                                                      !.sid = sid, !.series = row,
                                                      !.todo = occurrences])
                ELSE /\ hist' = Returned([Idle EXCEPT !.intent = "create-series"], FALSE)
                     /\ UNCHANGED <<nextSid, seriesTbl, proc>>
    /\ UNCHANGED <<today, attendees, events, rsvps, nextId, nowMs, retry, gen>>

CreateSeries(p) == CreateSeriesFrom(p, SeriesRules, SeriesStartDates, EndChoices)

\* slug = `${slug}-${Date.now()}`
disambiguate(slug, ts) == Slug(slug.base, slug.date, ts)

\* The slug check of the insert loop: select from events where slug = slug,
\* and Date.now() is read when the slug is taken
InsertCheck(p) ==
    /\ proc[p].pc = "ins_check"
    /\ LET pr   == proc[p]
           slug == Slug(slugify(pr.series.name), Head(pr.todo), 0)
           existing == \E e \in events : e.slug = slug
       IN  IF existing
           THEN \E ts \in clockReadings :
                   /\ nowMs' = ts
                   /\ proc' = [proc EXCEPT ![p] =
                                 [pr EXCEPT !.pc = "ins_insert",
                                            !.slug = disambiguate(slug, ts)]]
           ELSE /\ proc' = [proc EXCEPT ![p] =
                              [pr EXCEPT !.pc = "ins_insert", !.slug = slug]]
                /\ UNCHANGED nowMs
    /\ UNCHANGED <<today, attendees, seriesTbl, events, rsvps, nextId, nextSid, opCount,
                   hist, retry, gen>>

\* The row db.insert(events).values({...}) writes for one occurrence date
NewInstance(id, pr, occurrenceDate) ==
    [id |-> id, name |-> pr.series.name, slug |-> pr.slug, date |-> occurrenceDate,
     seriesId |-> pr.sid, seriesInstanceDate |-> occurrenceDate,
     isSeriesException |-> FALSE]

\* The insert of the insert loop; events.slug is UNIQUE and events.series_id
\* references event_series, so the insert can throw and end the request
InsertInstance(p) ==
    /\ proc[p].pc = "ins_insert"
    /\ LET pr == proc[p]
           occurrenceDate == Head(pr.todo)
           id == nextId + 1
       IN  IF \/ \E e \in events : e.slug = pr.slug
              \/ seriesTbl[pr.sid] = NoRow
           THEN /\ proc' = [proc EXCEPT ![p] = Idle]
                /\ hist' = Returned(pr, FALSE)
                /\ UNCHANGED <<events, nextId>>
           ELSE /\ events' = events \cup {NewInstance(id, pr, occurrenceDate)}
                /\ nextId' = id
                /\ AfterGenerate(p, [pr EXCEPT !.todo = Tail(pr.todo),
                                               !.created = pr.created \cup {id}])
    /\ UNCHANGED <<today, attendees, seriesTbl, rsvps, nextSid, nowMs, opCount, retry, gen>>

\* ---- generate-more
\* select from events where seriesId order by desc(date) .get(), then
\* latestInstance ? latestInstance.date : series.startDate
latestStartFrom(sid, row) ==
    IF SeriesEvents(sid) = {}
    THEN row.startDate
    ELSE CHOOSE d \in {e.date : e \in SeriesEvents(sid)} :
             \A e \in SeriesEvents(sid) : e.date <= d

\* newOccurrences of generate-more: 6 months ahead, from startFrom
generateMoreOccurrences(row, startFrom, existingDates) ==
    filterNew(generateOccurrences(
                  Options(row.rule, startFrom, row.endDate, row.maxOccurrences,
                          addMonths(today, 6))),
              existingDates)

\* newOccurrences of regenerate-instances: 3 months ahead, from today
regenerateOccurrences(row, existingDates) ==
    filterNew(generateOccurrences(
                  Options(row.rule, today, row.endDate, row.maxOccurrences,
                          addMonths(today, 3))),
              existingDates)

\* The instance dates one run of generate-more leaves, from the current store
generateMoreOutcome(sid) ==
    instanceDates(sid) \cup
    Range(generateMoreOccurrences(seriesTbl[sid], latestStartFrom(sid, seriesTbl[sid]),
                                  instanceDates(sid)))

\* The instance dates one run of regenerate-instances leaves, from the current store
regenerateOutcome(sid) ==
    LET kept == {e.seriesInstanceDate :
                   e \in {x \in SeriesEvents(sid) : x.date < today \/ hasRsvps(x.id)}}
    IN  kept \cup Range(regenerateOccurrences(seriesTbl[sid], kept))

\* The request arrives and the handler reads the series row (404 when absent)
BeginOnSeries(p, sid, intent, pc, expected) ==
    /\ seriesTbl[sid] # NoRow
    /\ retry.pending => retry.intent = intent /\ retry.sid = sid
    /\ Arrive(p)
    /\ proc' = [proc EXCEPT ![p] =
                  [Idle EXCEPT !.pc = pc, !.intent = intent, !.sid = sid,
                               !.series = seriesTbl[sid],
                               !.rerun = retry.pending,
                               !.expected = IF retry.pending THEN retry.expected
                                            ELSE expected]]
    /\ retry' = NoRetry
    /\ UNCHANGED <<today, attendees, seriesTbl, events, rsvps, nextId, nextSid, nowMs, hist, gen>>

GenerateMore(p, sid) ==
    BeginOnSeries(p, sid, "generate-more", "gm_latest", generateMoreOutcome(sid))

\* Find the latest existing instance date
GenerateMoreLatest(p) ==
    /\ proc[p].pc = "gm_latest"
    /\ LET pr == proc[p]
       IN  proc' = [proc EXCEPT ![p] =
                      [pr EXCEPT !.pc = "gm_existing",
                                 !.startFrom = latestStartFrom(pr.sid, pr.series)]]
    /\ UNCHANGED <<today, attendees, seriesTbl, events, rsvps, nextId, nextSid, nowMs, opCount,
                   hist, retry, gen>>

\* Get existing instance dates to avoid duplicates, and generate
GenerateMoreExisting(p) ==
    /\ proc[p].pc = "gm_existing"
    /\ LET pr == proc[p]
           existingDates == instanceDates(pr.sid)
       IN  AfterGenerate(p, [pr EXCEPT
               !.existingDates = existingDates,
               !.todo = generateMoreOccurrences(pr.series, pr.startFrom, existingDates)])
    /\ UNCHANGED <<today, attendees, seriesTbl, events, rsvps, nextId, nextSid, nowMs, opCount,
                   retry, gen>>

\* ---- regenerate-instances and delete-series: the deletion of future
\* instances without RSVPs
RegenerateInstances(p, sid) ==
    BeginOnSeries(p, sid, "regenerate-instances", "del_select", regenerateOutcome(sid))

DeleteSeries(p, sid) ==
    /\ ~retry.pending
    /\ BeginOnSeries(p, sid, "delete-series", "del_select", {})

\* Mutant: the instances of the series are selected whatever their date
futureInstanceIds_AnyDate(sid) ==
    {e.id : e \in SeriesEvents(sid)}

\* futureInstances: select from events where seriesId and date >= today
futureInstanceIds(sid) ==
    {e.id : e \in {x \in SeriesEvents(sid) : x.date >= today}}

\* The rows in the order of date_idx: by date, rows of one date by rowid
RECURSIVE byDate(_)
byDate(ids) ==
    IF ids = {} THEN <<>>
    ELSE LET dateOf(id) == (CHOOSE e \in events : e.id = id).date
             first == CHOOSE i \in ids : \A j \in ids :
                          \/ dateOf(i) < dateOf(j)
                          \/ dateOf(i) = dateOf(j) /\ i <= j
         IN  <<first>> \o byDate(ids \ {first})

\* The select has no ORDER BY: the rows come in the order of the index the
\* planner scans, series_id_idx (by rowid, the order of insertion) or
\* date_idx (by date)
scanOrders(ids) == {SetToSeq(ids), byDate(ids)}

SelectFuture(p) ==
    /\ proc[p].pc = "del_select"
    /\ LET pr == proc[p]
       IN  \E ids \in scanOrders(futureInstanceIds(pr.sid)) :
               proc' = [proc EXCEPT ![p] =
                          [pr EXCEPT !.ids = ids,
                                     !.pc = IF ids = <<>> THEN (IF pr.intent = "delete-series"
                                                  THEN "ds_series" ELSE "rg_existing")
                                            ELSE "del_check"]]
    /\ UNCHANGED <<today, attendees, seriesTbl, events, rsvps, nextId, nextSid, nowMs, opCount,
                   hist, retry, gen>>

\* const hasRsvps = select from rsvps where eventId = instance.id
CheckRsvps(p) ==
    /\ proc[p].pc = "del_check"
    /\ LET pr == proc[p]
           rest == Tail(pr.ids)
       IN  proc' = [proc EXCEPT ![p] =
                      IF hasRsvps(Head(pr.ids))
                      THEN [pr EXCEPT !.ids = rest,
                                      !.pc = IF rest = <<>> THEN (IF pr.intent = "delete-series"
                                                  THEN "ds_series" ELSE "rg_existing")
                                             ELSE "del_check"]
                      ELSE [pr EXCEPT !.pc = "del_delete"]]
    /\ UNCHANGED <<today, attendees, seriesTbl, events, rsvps, nextId, nextSid, nowMs, opCount,
                   hist, retry, gen>>

\* db.delete(events).where(eq(events.id, instance.id)); rsvps.event_id is
\* declared ON DELETE CASCADE
DeleteInstance(p) ==
    /\ proc[p].pc = "del_delete"
    /\ LET pr == proc[p]
           id == Head(pr.ids)
           rest == Tail(pr.ids)
       IN  /\ events' = {e \in events : e.id # id}
           /\ rsvps' = {r \in rsvps : r.eventId # id}
           /\ proc' = [proc EXCEPT ![p] =
                         [pr EXCEPT !.ids = rest,
                                    !.deleted = pr.deleted \cup {id},
                                    !.pc = IF rest = <<>> THEN (IF pr.intent = "delete-series"
                                                  THEN "ds_series" ELSE "rg_existing")
                                           ELSE "del_check"]]
    /\ UNCHANGED <<today, attendees, seriesTbl, nextId, nextSid, nowMs, opCount, hist, retry, gen>>

\* Get remaining instance dates to avoid duplicates, and generate from today
RegenerateExisting(p) ==
    /\ proc[p].pc = "rg_existing"
    /\ LET pr == proc[p]
           existingDates == instanceDates(pr.sid)
       IN  AfterGenerate(p, [pr EXCEPT
               !.existingDates = existingDates,
               !.todo = regenerateOccurrences(pr.series, existingDates)])
    /\ UNCHANGED <<today, attendees, seriesTbl, events, rsvps, nextId, nextSid, nowMs, opCount,
                   retry, gen>>

\* db.delete(eventSeries).where(eq(eventSeries.id, seriesId)). The store is
\* built by the migrations, where events.series_id REFERENCES
\* event_series(id) has no ON DELETE clause (schema.ts says "set null"), and
\* D1 enforces foreign keys: while an event row refers to the series the
\* delete throws, and the row and the events stay as they are
DeleteSeriesRow(p) ==
    /\ proc[p].pc = "ds_series"
    /\ LET pr == proc[p]
       IN  IF SeriesEvents(pr.sid) # {}
           THEN /\ proc' = [proc EXCEPT ![p] = Idle]
                /\ hist' = Returned(pr, FALSE)
                /\ UNCHANGED seriesTbl
           ELSE /\ seriesTbl' = [seriesTbl EXCEPT ![pr.sid] = NoRow]
                /\ Goto(p, pr, "idle")
    /\ UNCHANGED <<today, attendees, events, rsvps, nextId, nextSid, nowMs, opCount, retry, gen>>

\* ---- update-series: the form is stored as submitted, nothing is validated
UpdateSeriesFrom(p, sid, rules, ends) ==
    /\ ~retry.pending
    /\ seriesTbl[sid] # NoRow
    /\ Arrive(p)
    /\ \E name \in Names, rule \in rules, end \in ends :
         proc' = [proc EXCEPT ![p] =
                    [Idle EXCEPT !.pc = "us_series", !.intent = "update-series",
                                 !.sid = sid,
                                 !.series = [seriesTbl[sid] EXCEPT
                                               !.name = name, !.rule = rule,
                                               !.endDate = end.endDate,
                                               !.maxOccurrences = end.maxOccurrences]]]
    /\ UNCHANGED <<today, attendees, seriesTbl, events, rsvps, nextId, nextSid, nowMs, hist, retry, gen>>

UpdateSeries(p, sid) == UpdateSeriesFrom(p, sid, SeriesRules, EndChoices)

\* db.update(eventSeries).set({...}).where(eq(eventSeries.id, seriesId))
UpdateSeriesRow(p) ==
    /\ proc[p].pc = "us_series"
    /\ LET pr == proc[p]
       IN  /\ seriesTbl' =
                 IF seriesTbl[pr.sid] = NoRow THEN seriesTbl
                 ELSE [seriesTbl EXCEPT ![pr.sid] =
                         [@ EXCEPT !.name = pr.series.name, !.rule = pr.series.rule,
                                   !.endDate = pr.series.endDate,
                                   !.maxOccurrences = pr.series.maxOccurrences]]
           /\ proc' = [proc EXCEPT ![p] = [pr EXCEPT !.pc = "us_events"]]
    /\ UNCHANGED <<today, attendees, events, rsvps, nextId, nextSid, nowMs, opCount, hist, retry, gen>>

\* Mutant: the update also reaches the past instances of the series
updatesInstance_AnyDate(e, sid) ==
    /\ e.seriesId = sid
    /\ e.isSeriesException = FALSE

\* The instances update-series rewrites: future, non-exception, of the series
updatesInstance(e, sid) ==
    /\ e.seriesId = sid
    /\ e.isSeriesException = FALSE
    /\ e.date >= today

\* db.update(events).set({...}).where(and(seriesId, isSeriesException = false, date >= today))
UpdateSeriesInstances(p) ==
    /\ proc[p].pc = "us_events"
    /\ LET pr == proc[p]
       IN  /\ events' = {IF updatesInstance(e, pr.sid)
                         THEN [e EXCEPT !.name = pr.series.name] ELSE e : e \in events}
           /\ Goto(p, pr, "idle")
    /\ UNCHANGED <<today, attendees, seriesTbl, rsvps, nextId, nextSid, nowMs, opCount, retry, gen>>

\* ---- an attendee's RSVP (events.$slug action)
\* isEventInPast(date): new Date(date + "T23:59:59") < new Date(), where
\* the string is read as a time of the runtime's time zone
isEventInPast(dateString, now) ==
    \/ dateString < now.date
    \/ dateString = now.date /\ now.lastSecond

\* The request of a visitor who is not signed in arrives and the handler
\* selects the event (404 when absent) and refuses an event in the past (400).
\* localClocks is what new Date() can show in the runtime's time zone while
\* the UTC date is today: the local calendar date, and whether the local
\* time is in the last second of that date (after 23:59:59.000). West of UTC
\* the local date is today or the day before; on UTC it is today; east of
\* UTC it is today or the day after, and then the UTC day ends before the
\* local one does.
CreateRsvp(p, id, attendee) ==
    /\ ~retry.pending
    /\ Cardinality(rsvps) < MaxRsvps
    /\ Arrive(p)
    /\ \E e \in events, now \in
            LET localClocks ==
                  {[date |-> addDaysToDateString(today, -1), lastSecond |-> FALSE],
                   [date |-> addDaysToDateString(today, -1), lastSecond |-> TRUE],
                   [date |-> today, lastSecond |-> FALSE],
                   [date |-> today, lastSecond |-> TRUE],
                   [date |-> addDaysToDateString(today, 1), lastSecond |-> FALSE]}
            IN  localClocks :
         /\ e.id = id
         /\ LET pr == [Idle EXCEPT !.intent = "rsvp", !.eventId = id,
                                   !.attendee = attendee]
            IN  IF isEventInPast(e.date, now)
                THEN /\ hist' = Returned(pr, FALSE)
                     /\ UNCHANGED proc
                ELSE /\ proc' = [proc EXCEPT ![p] = [pr EXCEPT !.pc = "rsvp_count"]]
                     /\ UNCHANGED hist
    /\ UNCHANGED <<today, attendees, seriesTbl, events, rsvps, nextId, nextSid, nowMs, retry, gen>>

\* "Check RSVP count for capacity": select from rsvps where eventId and
\* status yes; the count decides only the status column of the RSVP
RsvpCount(p) ==
    /\ proc[p].pc = "rsvp_count"
    /\ proc' = [proc EXCEPT ![p] = [proc[p] EXCEPT !.pc = "rsvp_attendee"]]
    /\ UNCHANGED <<today, attendees, seriesTbl, events, rsvps, nextId, nextSid, nowMs, opCount,
                   hist, retry, gen>>

\* "Find or create attendee": select from attendees where email
\* (clerkUserId is null, so a row that is found is not updated)
RsvpAttendee(p) ==
    /\ proc[p].pc = "rsvp_attendee"
    /\ LET pr == proc[p]
       IN  proc' = [proc EXCEPT ![p] =
                      [pr EXCEPT !.pc = IF pr.attendee \in attendees
                                        THEN "rsvp_existing"
                                        ELSE "rsvp_attendee_insert"]]
    /\ UNCHANGED <<today, attendees, seriesTbl, events, rsvps, nextId, nextSid, nowMs, opCount,
                   hist, retry, gen>>

\* db.insert(attendees): attendees.email is UNIQUE, so the insert throws
\* when a row of the address is there by now
RsvpAttendeeInsert(p) ==
    /\ proc[p].pc = "rsvp_attendee_insert"
    /\ LET pr == proc[p]
       IN  IF pr.attendee \in attendees
           THEN /\ proc' = [proc EXCEPT ![p] = Idle]
                /\ hist' = Returned(pr, FALSE)
                /\ UNCHANGED attendees
           ELSE /\ attendees' = attendees \cup {pr.attendee}
                /\ proc' = [proc EXCEPT ![p] = [pr EXCEPT !.pc = "rsvp_existing"]]
                /\ UNCHANGED hist
    /\ UNCHANGED <<today, seriesTbl, events, rsvps, nextId, nextSid, nowMs, opCount,
                   retry, gen>>

\* "Check for existing RSVP": select from rsvps where eventId and attendeeId
RsvpExisting(p) ==
    /\ proc[p].pc = "rsvp_existing"
    /\ LET pr == proc[p]
           existingRsvp == [eventId |-> pr.eventId, attendeeId |-> pr.attendee] \in rsvps
       IN  proc' = [proc EXCEPT ![p] =
                      [pr EXCEPT !.pc = IF existingRsvp THEN "rsvp_update"
                                        ELSE "rsvp_insert"]]
    /\ UNCHANGED <<today, attendees, seriesTbl, events, rsvps, nextId, nextSid, nowMs, opCount,
                   hist, retry, gen>>

\* "Update existing RSVP": status and notes of the row, when it is still there
RsvpUpdate(p) ==
    /\ proc[p].pc = "rsvp_update"
    /\ Goto(p, proc[p], "idle")
    /\ UNCHANGED <<today, attendees, seriesTbl, events, rsvps, nextId, nextSid, nowMs, opCount,
                   retry, gen>>

\* "Create new RSVP": rsvps.event_id references events and (event_id,
\* attendee_id) is UNIQUE, so the insert throws when the event is gone or
\* the row is there
RsvpInsert(p) ==
    /\ proc[p].pc = "rsvp_insert"
    /\ LET pr  == proc[p]
           row == [eventId |-> pr.eventId, attendeeId |-> pr.attendee]
       IN  IF \/ ~\E e \in events : e.id = pr.eventId
              \/ row \in rsvps
           THEN /\ proc' = [proc EXCEPT ![p] = Idle]
                /\ hist' = Returned(pr, FALSE)
                /\ UNCHANGED rsvps
           ELSE /\ rsvps' = rsvps \cup {row}
                /\ Goto(p, pr, "idle")
    /\ UNCHANGED <<today, attendees, seriesTbl, events, nextId, nextSid, nowMs, opCount, retry, gen>>

\* ---- the admin's requests on single events
\* The admin's edit of one event (admin.events.$id action, intent update)
EventUpdate(id, name, date) ==
    /\ ~retry.pending
    /\ opCount < MaxOps
    /\ \E e \in events :
         /\ e.id = id
         /\ events' = (events \ {e}) \cup {[e EXCEPT !.name = name, !.date = date]}
    /\ opCount' = opCount + 1
    /\ hist' = Single("event-update", 0)
    /\ UNCHANGED <<today, attendees, seriesTbl, rsvps, nextId, nextSid, nowMs, proc, retry, gen>>

\* admin.events.$id action, intent delete: db.delete(events).where(id), with
\* the RSVPs of the event (rsvps.event_id is ON DELETE CASCADE)
EventDelete(id) ==
    /\ ~retry.pending
    /\ opCount < MaxOps
    /\ \E e \in events : e.id = id
    /\ events' = {e \in events : e.id # id}
    /\ rsvps' = {r \in rsvps : r.eventId # id}
    /\ opCount' = opCount + 1
    /\ hist' = Single("event-delete", 0)
    /\ UNCHANGED <<today, attendees, seriesTbl, nextId, nextSid, nowMs, proc, retry, gen>>

\* admin.events.new action: the request arrives, slug = slugify(name), and
\* the slug check; Date.now() is read when the slug is taken
NewEvent(p, name, date) ==
    /\ ~retry.pending
    /\ Arrive(p)
    /\ LET slug == asSlug(slugify(name))
           pr   == [Idle EXCEPT !.pc = "ne_insert", !.intent = "new-event",
                                !.name = name, !.date = date]
       IN  IF \E e \in events : e.slug = slug
           THEN \E ts \in clockReadings :
                   /\ nowMs' = ts
                   /\ proc' = [proc EXCEPT ![p] =
                                 [pr EXCEPT !.slug = disambiguate(slug, ts)]]
           ELSE /\ proc' = [proc EXCEPT ![p] = [pr EXCEPT !.slug = slug]]
                /\ UNCHANGED nowMs
    /\ UNCHANGED <<today, attendees, seriesTbl, events, rsvps, nextId, nextSid, hist, retry, gen>>

\* "Create event": the insert of an event that belongs to no series
NewEventInsert(p) ==
    /\ proc[p].pc = "ne_insert"
    /\ LET pr == proc[p]
           id == nextId + 1
       IN  IF \E e \in events : e.slug = pr.slug
           THEN /\ proc' = [proc EXCEPT ![p] = Idle]
                /\ hist' = Returned(pr, FALSE)
                /\ UNCHANGED <<events, nextId>>
           ELSE /\ events' = events \cup
                        {[id |-> id, name |-> pr.name, slug |-> pr.slug,
                          date |-> pr.date, seriesId |-> 0,
                          seriesInstanceDate |-> 0, isSeriesException |-> FALSE]}
                /\ nextId' = id
                /\ Goto(p, [pr EXCEPT !.created = {id}], "idle")
    /\ UNCHANGED <<today, attendees, seriesTbl, rsvps, nextSid, nowMs, opCount, retry, gen>>

\* ---- pause-series, resume-series, end-series: the handler reads the series
\* row, then updates its status column, whatever the status was
SetStatus(p, sid, intent) ==
    /\ ~retry.pending
    /\ BeginOnSeries(p, sid, intent, "st_update", {})

\* db.update(eventSeries).set({ status }).where(eq(eventSeries.id, seriesId))
UpdateStatus(p) ==
    /\ proc[p].pc = "st_update"
    /\ LET pr == proc[p]
           status == CASE pr.intent = "pause-series" -> "paused"
                       [] pr.intent = "resume-series" -> "active"
                       [] OTHER -> "ended"
       IN  /\ seriesTbl' =
                 IF seriesTbl[pr.sid] = NoRow THEN seriesTbl
                 ELSE [seriesTbl EXCEPT ![pr.sid].status = status]
           /\ Goto(p, pr, "idle")
    /\ UNCHANGED <<today, attendees, events, rsvps, nextId, nextSid, nowMs, opCount, retry, gen>>

\* A store call of generate-more or regenerate-instances throws: the request
\* ends where it is and the admin sends it again (the same request: it is
\* not counted twice)
Abort(p) ==
    /\ proc[p].pc # "idle"
    /\ proc[p].intent \in {"generate-more", "regenerate-instances"}
    /\ ~proc[p].rerun
    /\ retry' = [pending |-> TRUE, intent |-> proc[p].intent, sid |-> proc[p].sid,
                 expected |-> proc[p].expected]
    /\ hist' = Returned(proc[p], FALSE)
    /\ proc' = [proc EXCEPT ![p] = Idle]
    /\ opCount' = opCount - 1
    /\ UNCHANGED <<today, attendees, seriesTbl, events, rsvps, nextId, nextSid, nowMs, gen>>

\* ---- the steps of a request in flight
Step(p) ==
    \/ InsertCheck(p)
    \/ InsertInstance(p)
    \/ GenerateMoreLatest(p)
    \/ GenerateMoreExisting(p)
    \/ SelectFuture(p)
    \/ CheckRsvps(p)
    \/ DeleteInstance(p)
    \/ RegenerateExisting(p)
    \/ DeleteSeriesRow(p)
    \/ UpdateSeriesRow(p)
    \/ UpdateSeriesInstances(p)
    \/ RsvpCount(p)
    \/ RsvpAttendee(p)
    \/ RsvpAttendeeInsert(p)
    \/ RsvpExisting(p)
    \/ RsvpUpdate(p)
    \/ RsvpInsert(p)
    \/ NewEventInsert(p)

\* A request of several store calls arrives
Request(p) ==
    \/ CreateSeries(p)
    \/ \E sid \in SeriesIds :
         \/ GenerateMore(p, sid)
         \/ RegenerateInstances(p, sid)
         \/ DeleteSeries(p, sid)
         \/ UpdateSeries(p, sid)
    \/ \E id \in 1..nextId, a \in Attendees : CreateRsvp(p, id, a)
    \/ \E name \in EventNames, date \in EventDates : NewEvent(p, name, date)

\* A request of a single statement arrives
SingleRequest ==
    \/ \E e \in events : \E date \in {e.date, addDaysToDateString(e.date, 1)} :
         EventUpdate(e.id, EditedName, date)
    \/ \E id \in 1..nextId : EventDelete(id)

Init == StoreInit /\ gen = NoGen

\* Requests one after the other: a request arrives when none is in flight
Next ==
    \/ AllIdle /\ Request(1)
    \/ AllIdle /\ SingleRequest
    \/ Step(1)

Spec == Init /\ [][Next]_vars

\* The series that requests overlap on: monthly, without an end
ConcRules == {DayOfMonthRule(31)}

ConcEnds == {[endDate |-> 0, maxOccurrences |-> 0]}

ConcStartDates == {20260220}

\* Requests on existing series that overlap: generate-more,
\* regenerate-instances and delete-series requests and RSVPs arrive while
\* others are in flight (a request takes the first free handler slot), and
\* every request in flight takes its next store call in any order
ConcNext ==
    \/ AllIdle /\ CreateSeriesFrom(1, ConcRules, ConcStartDates, ConcEnds)
    \/ \E p \in Procs :
         /\ \A q \in Procs : q < p => proc[q].pc # "idle"
         /\ \E sid \in SeriesIds :
                 \/ GenerateMore(p, sid)
                 \/ RegenerateInstances(p, sid)
                 \/ DeleteSeries(p, sid)
    \/ \E p \in Procs :
         /\ \A q \in Procs : q < p => proc[q].pc # "idle"
         /\ \E id \in 1..nextId, a \in Attendees : CreateRsvp(p, id, a)
    \/ \E p \in Procs :
         \/ InsertCheck(p)
         \/ InsertInstance(p)
         \/ GenerateMoreLatest(p)
         \/ GenerateMoreExisting(p)
         \/ SelectFuture(p)
         \/ CheckRsvps(p)
         \/ DeleteInstance(p)
         \/ RegenerateExisting(p)
         \/ DeleteSeriesRow(p)
         \/ RsvpCount(p)
         \/ RsvpAttendee(p)
         \/ RsvpAttendeeInsert(p)
         \/ RsvpExisting(p)
         \/ RsvpUpdate(p)
         \/ RsvpInsert(p)

SpecConc == Init /\ [][ConcNext]_vars

\* New series, generate-more, regenerate-instances and RSVPs one after the
\* other, where a store call of generate-more or regenerate-instances may
\* throw and the request is then sent again
RetryNext ==
    \/ AllIdle /\ CreateSeries(1)
    \/ AllIdle /\ \E sid \in SeriesIds :
                     \/ GenerateMore(1, sid)
                     \/ RegenerateInstances(1, sid)
    \/ AllIdle /\ \E id \in 1..nextId, a \in Attendees : CreateRsvp(1, id, a)
    \/ InsertCheck(1)
    \/ InsertInstance(1)
    \/ GenerateMoreLatest(1)
    \/ GenerateMoreExisting(1)
    \/ SelectFuture(1)
    \/ CheckRsvps(1)
    \/ DeleteInstance(1)
    \/ RegenerateExisting(1)
    \/ RsvpCount(1)
    \/ RsvpAttendee(1)
    \/ RsvpAttendeeInsert(1)
    \/ RsvpExisting(1)
    \/ RsvpUpdate(1)
    \/ RsvpInsert(1)
    \/ Abort(1)

SpecRetry == Init /\ [][RetryNext]_vars

\* A monthly rule whose monthlyPattern is absent
MonthlyNoPattern ==
    [frequency |-> "monthly", daysOfWeek |-> <<>>, monthlyPattern |-> NoPattern]

\* The recurrenceRule field of a submitted form: any JSON of the rule's shape
FormRules ==
    { DayOfMonthRule(31),
      DayOfMonthRule(32),
      MonthlyNoPattern,
      WeeklyRule("weekly", <<>>) }

FormStartDates == {20260120}

\* The end fields of a submitted form: the end type, and whatever is typed in
\* the endDate and maxOccurrences inputs (0 for an empty input)
EndForms ==
    [endType : {"never", "date", "count"},
     endDate : {0} \cup SeriesEndDates,
     maxOccurrences : {0, MaxCount}]

FormEnds == {storedEnd(form) : form \in EndForms}

\* Forms submitted one after the other: new series and template updates with
\* any rule and any end fields, then generate-more and regenerate-instances
\* on the stored templates
FormNext ==
    \/ AllIdle /\ CreateSeriesFrom(1, FormRules, FormStartDates, FormEnds)
    \/ AllIdle /\ \E sid \in SeriesIds :
                     \/ UpdateSeriesFrom(1, sid, FormRules, FormEnds)
                     \/ GenerateMore(1, sid)
                     \/ RegenerateInstances(1, sid)
    \/ InsertCheck(1)
    \/ InsertInstance(1)
    \/ GenerateMoreLatest(1)
    \/ GenerateMoreExisting(1)
    \/ SelectFuture(1)
    \/ CheckRsvps(1)
    \/ DeleteInstance(1)
    \/ RegenerateExisting(1)
    \/ UpdateSeriesRow(1)
    \/ UpdateSeriesInstances(1)

SpecForms == Init /\ [][FormNext]_vars

\* Series whose template stays as created: new series, then generate-more
\* and regenerate-instances on them, with RSVPs in between
FixedNext ==
    \/ AllIdle /\ CreateSeries(1)
    \/ AllIdle /\ \E sid \in SeriesIds :
                     \/ GenerateMore(1, sid)
                     \/ RegenerateInstances(1, sid)
    \/ AllIdle /\ \E id \in 1..nextId, a \in Attendees : CreateRsvp(1, id, a)
    \/ InsertCheck(1)
    \/ InsertInstance(1)
    \/ GenerateMoreLatest(1)
    \/ GenerateMoreExisting(1)
    \/ SelectFuture(1)
    \/ CheckRsvps(1)
    \/ DeleteInstance(1)
    \/ RegenerateExisting(1)
    \/ RsvpCount(1)
    \/ RsvpAttendee(1)
    \/ RsvpAttendeeInsert(1)
    \/ RsvpExisting(1)
    \/ RsvpUpdate(1)
    \/ RsvpInsert(1)

SpecFixed == Init /\ [][FixedNext]_vars

\* Series that are paused, resumed and ended between the requests that
\* generate their instances
StatusNext ==
    \/ AllIdle /\ CreateSeriesFrom(1, SeriesRules, SeriesStartDates, ConcEnds)
    \/ AllIdle /\ \E sid \in SeriesIds :
                     \/ SetStatus(1, sid, "pause-series")
                     \/ SetStatus(1, sid, "resume-series")
                     \/ SetStatus(1, sid, "end-series")
    \/ AllIdle /\ \E sid \in SeriesIds :
                     \/ GenerateMore(1, sid)
                     \/ RegenerateInstances(1, sid)
    \/ InsertCheck(1)
    \/ InsertInstance(1)
    \/ GenerateMoreLatest(1)
    \/ GenerateMoreExisting(1)
    \/ SelectFuture(1)
    \/ CheckRsvps(1)
    \/ DeleteInstance(1)
    \/ RegenerateExisting(1)
    \/ UpdateStatus(1)

SpecStatus == Init /\ [][StatusNext]_vars

----------------------------------------------------------------------------
(* Properties of the series handlers                                       *)

eventIds(evs) == {e.id : e \in evs}

\* A request with this intent is in flight
inFlight(intent) == \E p \in Procs : proc[p].intent = intent

C4_SecondGenerateMoreCreatesNone ==
    ( /\ AllIdle
      /\ hist.intent = "generate-more" /\ hist.ok
      /\ hist.prevIntent = "generate-more" /\ hist.prevOk
      /\ hist.prevSid = hist.sid )
    => hist.created = {}

\* The instances created by each generate-more that is in flight or was the
\* last request to return
generateMoreRuns ==
    {proc[p].created : p \in {q \in Procs : proc[q].intent = "generate-more"}}
    \cup (IF hist.intent = "generate-more" THEN {hist.created} ELSE {})

\* C5: generate-more requests that overlap never leave a series with two
\* instances of the same seriesInstanceDate
C5_OverlappingGenerateMoreNoDuplicate ==
    \A e1 \in events : \A e2 \in events :
        ( /\ e1.id # e2.id
          /\ e1.seriesId = e2.seriesId
          /\ e1.seriesInstanceDate = e2.seriesInstanceDate
          /\ \E A \in generateMoreRuns : e1.id \in A
          /\ \E B \in generateMoreRuns : e2.id \in B )
        => FALSE

\* C6: an instance that has an RSVP at the moment of its deletion is never
\* deleted, also when an RSVP arrives while regenerate-instances or
\* delete-series is in flight
C6_NoInstanceWithRsvpDeleted ==
    [][\A e \in events : e.id \notin eventIds(events') => ~hasRsvps(e.id)]_vars

\* C7: generate-more or regenerate-instances that threw after some of its
\* store writes and was run again to the end leaves the instance dates that
\* one uninterrupted run would have left
C7_RetryConverges ==
    ( /\ AllIdle
      /\ hist.rerun /\ hist.ok
      /\ hist.intent \in {"generate-more", "regenerate-instances"} )
    => instanceDates(hist.sid) = hist.expected

\* C8: with requests one after the other, no two instances of a series have
\* the same seriesInstanceDate
C8_NoDuplicateInstanceDate ==
    \A e1 \in events : \A e2 \in events :
        ( /\ e1.seriesId # 0
          /\ e1.seriesId = e2.seriesId
          /\ e1.seriesInstanceDate = e2.seriesInstanceDate )
        => e1.id = e2.id

\* C8 witness: regenerate-instances returned after it deleted and created
\* instances, and an instance with an RSVP survived on a date that the
\* template generates from today
C8_Witness ==
    /\ AllIdle
    /\ hist.intent = "regenerate-instances" /\ hist.ok
    /\ hist.deleted # {}
    /\ hist.created # {}
    /\ \E e \in SeriesEvents(hist.sid) :
         /\ hasRsvps(e.id)
         /\ e.id \notin hist.created
         /\ e.seriesInstanceDate \in
               Range(generateOccurrences(
                   Options(seriesTbl[hist.sid].rule, today, seriesTbl[hist.sid].endDate,
                           seriesTbl[hist.sid].maxOccurrences, addMonths(today, 3))))

\* C9: update-series creates, deletes and re-dates no event, and changes the
\* content only of instances of its series dated today or later that are
\* not exceptions
C9_UpdateSeriesFrame ==
    [][\A p \in Procs : proc[p].intent = "update-series" =>
         /\ eventIds(events') = eventIds(events)
         /\ \A e \in events : \A f \in events' :
              f.id = e.id =>
                /\ f.date = e.date
                /\ f.seriesInstanceDate = e.seriesInstanceDate
                /\ f.seriesId = e.seriesId
                /\ f.slug = e.slug
                /\ f.isSeriesException = e.isSeriesException
                /\ f.name # e.name =>
                     /\ e.seriesId = proc[p].sid
                     /\ e.date >= today
                     /\ ~e.isSeriesException]_vars

\* C9 witness: update-series returned; a past instance of the series and an
\* instance of another series kept the old name while a future instance took
\* the new one
C9_Witness ==
    /\ AllIdle
    /\ hist.intent = "update-series"
    /\ seriesTbl[hist.sid].name = "open hack"
    /\ \E e \in SeriesEvents(hist.sid) : e.date < today /\ e.name = "Open Hack"
    /\ \E e \in events :
         e.seriesId \notin {0, hist.sid} /\ e.date >= today /\ e.name = "Open Hack"
    /\ \E e \in SeriesEvents(hist.sid) :
         e.date >= today /\ ~e.isSeriesException /\ e.name = "open hack"

\* C10: the content an admin typed on a single instance is not overwritten
\* by a later update-series of its template
C10_EditedInstanceKeepsContent ==
    [][inFlight("update-series") =>
         \A e \in events :
            e.name = EditedName =>
                \A f \in events' : f.id = e.id => f.name = EditedName]_vars

\* C11: delete-series deletes only instances of its series dated today or
\* later that have no RSVP, and its delete of the series row removes the
\* row and leaves every instance that is left (the past ones and the ones
\* with an RSVP) in the store as a standalone event, with its RSVPs
C11_DeleteSeriesKeepsPastAndRsvp ==
    [][\A p \in Procs : proc[p].intent = "delete-series" =>
         /\ \A e \in events :
              e.id \notin eventIds(events') =>
                /\ e.seriesId = proc[p].sid
                /\ e.date >= today
                /\ ~hasRsvps(e.id)
         /\ proc[p].pc = "ds_series" =>
              /\ seriesTbl'[proc[p].sid] = NoRow
              /\ \A e \in SeriesEvents(proc[p].sid) :
                    /\ [e EXCEPT !.seriesId = 0] \in events'
                    /\ \A r \in rsvps : r.eventId = e.id => r \in rsvps']_vars

\* C13: in the insert loop of create-series, generate-more and
\* regenerate-instances, the insert of a date goes through also when the
\* candidate slug was taken (the instance gets the disambiguated slug), and
\* the loop then goes on with the remaining dates or returns successfully
C13_SlugCollisionKeepsBatch ==
    [][\A p \in Procs : proc[p].pc = "ins_insert" =>
         /\ \E e \in events' :
              /\ e.id \notin eventIds(events)
              /\ e.seriesId = proc[p].sid
              /\ e.seriesInstanceDate = Head(proc[p].todo)
              /\ e.slug = proc[p].slug
         /\ IF Tail(proc[p].todo) = <<>>
            THEN proc'[p].pc = "idle" /\ hist'.ok /\ hist'.intent = proc[p].intent
            ELSE proc'[p].pc = "ins_check" /\ proc'[p].todo = Tail(proc[p].todo)]_vars

\* C21: when a new series materialized at least one instance, its earliest
\* instance is dated exactly the template's startDate
C21_FirstInstanceOnStartDate ==
    ( /\ AllIdle
      /\ hist.intent = "create-series" /\ hist.ok
      /\ hist.created # {} ) =>
        \E e \in events :
            /\ e.id \in hist.created
            /\ e.date = seriesTbl[hist.sid].startDate
            /\ \A f \in events : f.id \in hist.created => e.date <= f.date

\* A rule outside the documented shape: a monthly rule with neither pattern
\* variant populated, a day of the month outside 1..31, a weekday outside
\* 0..6, an occurrence other than 1..4 and -1, or an unknown frequency
malformed(rule) ==
    \/ rule.frequency \notin {"weekly", "biweekly", "monthly"}
    \/ /\ rule.frequency \in {"weekly", "biweekly"}
       /\ \E i \in 1..Len(rule.daysOfWeek) : rule.daysOfWeek[i] \notin 0..6
    \/ /\ rule.frequency = "monthly"
       /\ LET pt == rule.monthlyPattern
          IN  ~ \/ pt.type = "dayOfMonth" /\ pt.day \in 1..31
                \/ /\ pt.type = "weekdayOfMonth"
                   /\ pt.weekday \in 0..6
                   /\ pt.occurrence \in {1, 2, 3, 4, -1}

\* C12: no stored template holds a malformed rule, and generate-more and
\* regenerate-instances never reach their generateOccurrences call with one
C12_MalformedRuleRejected ==
    /\ \A sid \in SeriesIds :
          seriesTbl[sid] # NoRow => ~malformed(seriesTbl[sid].rule)
    /\ \A p \in Procs :
          proc[p].pc \in {"gm_existing", "rg_existing"} =>
              ~malformed(proc[p].series.rule)

\* C20: every stored template has at most one of endDate and maxOccurrences
\* set, and a form whose end type is "never" stores neither
C20_AtMostOneEndCondition ==
    /\ \A sid \in SeriesIds :
          seriesTbl[sid] # NoRow =>
              ~(seriesTbl[sid].endDate # 0 /\ seriesTbl[sid].maxOccurrences # 0)
    /\ \A form \in EndForms :
          form.endType = "never" =>
              storedEnd(form) = [endDate |-> 0, maxOccurrences |-> 0]

\* C20 witness: update-series returned; one template ends on a date, the
\* other after a number of occurrences, from forms with both inputs filled
C20_Witness ==
    /\ AllIdle
    /\ hist.intent = "update-series"
    /\ \E form \in EndForms :
         /\ form.endDate # 0 /\ form.maxOccurrences # 0 /\ form.endType = "count"
         /\ seriesTbl[hist.sid].endDate = storedEnd(form).endDate
         /\ seriesTbl[hist.sid].maxOccurrences = storedEnd(form).maxOccurrences
         /\ seriesTbl[hist.sid].maxOccurrences # 0
    /\ \E sid \in SeriesIds : seriesTbl[sid] # NoRow /\ seriesTbl[sid].endDate # 0

\* C24: a series whose template has maxOccurrences = N and is never edited
\* never has more than N instances, whatever creation, generate-more and
\* regenerate-instances requests were served
C24_NeverMoreThanMaxOccurrences ==
    \A sid \in SeriesIds :
        (seriesTbl[sid] # NoRow /\ seriesTbl[sid].maxOccurrences # 0) =>
            Cardinality(SeriesEvents(sid)) <= seriesTbl[sid].maxOccurrences

\* The occurrence sequence of a template anchored at its own startDate, up
\* to the horizon of regenerate-instances
anchoredOccurrences(row) ==
    generateOccurrences(Options(row.rule, row.startDate, row.endDate,
                                row.maxOccurrences, addMonths(today, 3)))

\* C25: every instance created by regenerate-instances is dated on an
\* element of the occurrence sequence of the template anchored at the
\* template's startDate
C25_RegenerateKeepsAnchor ==
    ( /\ AllIdle
      /\ hist.intent = "regenerate-instances" /\ hist.ok ) =>
        \A e \in events :
            e.id \in hist.created =>
                e.seriesInstanceDate \in Range(anchoredOccurrences(seriesTbl[hist.sid]))

\* C26: while a generate-more or regenerate-instances request is served for
\* a series that is paused or ended, the set of instances stays as it is
C26_OnlyActiveSeriesGenerate ==
    [][\A p \in Procs :
         ( /\ proc[p].intent \in {"generate-more", "regenerate-instances"}
           /\ seriesTbl[proc[p].sid].status \in {"paused", "ended"} )
         => events' = events]_vars

\* C29: a generate-more request only inserts: every event row and every
\* RSVP there was before one of its steps is there after it, unchanged; and
\* a regenerate-instances request leaves every event dated before today as
\* it was
C29_GenerateMoreOnlyInserts ==
    [][\A p \in Procs :
         /\ proc[p].intent = "generate-more" =>
                /\ events \subseteq events'
                /\ rsvps \subseteq rsvps'
         /\ proc[p].intent = "regenerate-instances" =>
                /\ \A e \in events : e.date < today => e \in events'
                /\ rsvps \subseteq rsvps']_vars

\* C29 witness: a regenerate-instances that deleted and created instances
\* has returned, right after a generate-more on the same series, and the
\* series still has an instance dated before today
C29_Witness ==
    /\ AllIdle
    /\ hist.intent = "regenerate-instances" /\ hist.ok
    /\ hist.deleted # {} /\ hist.created # {}
    /\ hist.prevIntent = "generate-more" /\ hist.prevOk /\ hist.prevSid = hist.sid
    /\ \E e \in SeriesEvents(hist.sid) : e.date < today

\* The horizon of a request: generate-more looks 6 months ahead, the new
\* series form and regenerate-instances 3 months
horizonOf(intent) ==
    addMonths(today, IF intent = "generate-more" THEN 6 ELSE 3)

\* C30: with templates that are never edited, no instance has a
\* seriesInstanceDate after the endDate of its template when that is set,
\* and no instance a request created is dated after the horizon of that
\* request (6 months ahead for generate-more, 3 months for the others)
C30_WithinEndDateAndHorizon ==
    /\ \A e \in events :
          (e.seriesId # 0 /\ seriesTbl[e.seriesId].endDate # 0) =>
              e.seriesInstanceDate <= seriesTbl[e.seriesId].endDate
    /\ \A e \in events :
          /\ \A p \in Procs :
                e.id \in proc[p].created =>
                    e.seriesInstanceDate <= horizonOf(proc[p].intent)
          /\ e.id \in hist.created =>
                e.seriesInstanceDate <= horizonOf(hist.intent)

\* C30 witness: a generate-more has returned after creating an instance
\* more than 3 months ahead, and another series holds the last instance its
\* endDate allows
C30_Witness ==
    /\ AllIdle
    /\ hist.intent = "generate-more" /\ hist.ok
    /\ \E e \in events : e.id \in hist.created /\ e.date > addMonths(today, 3)
    /\ \E sid \in SeriesIds :
         /\ seriesTbl[sid] # NoRow /\ seriesTbl[sid].endDate # 0
         /\ \E e \in SeriesEvents(sid) :
               /\ e.seriesInstanceDate <= seriesTbl[sid].endDate
               /\ addMonths(e.seriesInstanceDate, 1) > seriesTbl[sid].endDate

----------------------------------------------------------------------------
(* A single call of generateOccurrences on options drawn from small sets   *)

GenMaxCount == 4

GenRules ==
    { WeeklyRule("weekly", <<2, 4>>),
      WeeklyRule("weekly", <<4, 2>>),
      WeeklyRule("weekly", <<6, 0, 3>>),
      WeeklyRule("biweekly", <<5, 1>>),
      WeeklyRule("weekly", <<>>),
      WeeklyRule("biweekly", <<>>),
      DayOfMonthRule(31),
      DayOfMonthRule(15),
      WeekdayOfMonthRule(5, -1),
      WeekdayOfMonthRule(2, 2),
      WeekdayOfMonthRule(5, 5) }

GenStartDates == {20260106, 20260131, 20271229, 20280131}

\* endDate: none, or some days or months after the start, or before it
GenEndDates(startDate) ==
    {0, addDaysToDateString(startDate, -3), addDaysToDateString(startDate, 20),
     addMonthsToDateString(startDate, 2)}

\* generateUntil: before the start, or some months or a year after it, or
\* absent (0)
GenUntilDates(startDate) ==
    {addDaysToDateString(startDate, -1), addDaysToDateString(startDate, 14),
     addMonthsToDateString(startDate, 1), addMonthsToDateString(startDate, 4),
     addMonthsToDateString(startDate, 12), 0}

GenOptions ==
    UNION { UNION { { Options(rule, startDate, endDate, maxOccurrences, generateUntil) :
                        rule \in GenRules, maxOccurrences \in 0..GenMaxCount,
                        generateUntil \in GenUntilDates(startDate) } :
                    endDate \in GenEndDates(startDate) } :
            startDate \in GenStartDates }

GenInit ==
    /\ StoreInit
    /\ gen \in {[NoGen EXCEPT !.options = o, !.ruleAfter = o.rule] : o \in GenOptions}

\* The call: its result, and options.rule as the call leaves it
Generate ==
    /\ ~gen.called
    /\ LET run == runLoop(gen.options, loopEntry(gen.options))
       IN  gen' = [gen EXCEPT !.called = TRUE, !.result = run.occurrences,
                              !.ruleAfter = run.rule]
    /\ UNCHANGED storeVars

GenNext == Generate

SpecGen == GenInit /\ [][GenNext]_vars

\* Day number of a date string: the calendar order of dates
dayNumber(dateStr) ==
    LET p == parseDateString(dateStr) IN DateUTC(p.year, p.month, p.day)

\* C1: the list generateOccurrences returns is strictly ascending in calendar
\* order (so no date occurs twice), for every rule and every bounds
C1_StrictlyAscending ==
    gen.called =>
        \A i \in 1..Len(gen.result) : \A j \in 1..Len(gen.result) :
            i < j => dayNumber(gen.result[i]) < dayNumber(gen.result[j])

\* C1 witness: a call with the days supplied unsorted returned several weeks
C1_Witness ==
    /\ gen.called
    /\ gen.options.rule.daysOfWeek = <<6, 0, 3>>
    /\ Len(gen.result) >= 4

\* C2: no returned date is before startDate, after endDate (when set) or
\* after generateUntil, and the list is no longer than maxOccurrences (when set)
C2_WithinBounds ==
    gen.called =>
        LET o == gen.options
        IN  /\ \A i \in 1..Len(gen.result) :
                 /\ gen.result[i] >= o.startDate
                 /\ o.endDate # 0 => gen.result[i] <= o.endDate
                 /\ gen.result[i] <= untilDate(o)
            /\ o.maxOccurrences # 0 => Len(gen.result) <= o.maxOccurrences

\* C2 witness: a call that maxOccurrences cut short: the list is full and the
\* next weekly date is within both endDate and generateUntil
C2_Witness ==
    /\ gen.called
    /\ gen.options.rule = WeeklyRule("weekly", <<>>)
    /\ Len(gen.result) >= 2
    /\ Len(gen.result) = gen.options.maxOccurrences
    /\ gen.options.endDate # 0
    /\ gen.result[Len(gen.result)] <= gen.options.endDate
    /\ addDaysToDateString(gen.result[Len(gen.result)], 7) <= gen.options.endDate
    /\ addDaysToDateString(gen.result[Len(gen.result)], 7) <= untilDate(gen.options)

\* Day `day` of the month is its n-th weekday w (n = -1: its last one)
dayIsNthWeekday(year, month, day, w, n) ==
    /\ day <= getDaysInMonth(year, month)
    /\ getDayOfWeek(year, month, day) = w
    /\ IF n = -1
       THEN day + 7 > getDaysInMonth(year, month)
       ELSE (day - 1) \div 7 + 1 = n

\* Months since year 0 of a date string
monthNumber(dateStr) ==
    LET p == parseDateString(dateStr) IN p.year * 12 + p.month

\* The n-th w-days of the months from startDate's month to generateUntil's
\* month that lie within startDate, endDate (when set) and generateUntil
nthWeekdaysWithin(o, w, n) ==
    {d \in {formatDateString(k \div 12, k % 12, day) :
               k \in monthNumber(o.startDate)..monthNumber(untilDate(o)),
               day \in 1..31} :
        LET p == parseDateString(d)
        IN  /\ dayIsNthWeekday(p.year, p.month, p.day, w, n)
            /\ d >= o.startDate
            /\ d <= untilDate(o)
            /\ o.endDate # 0 => d <= o.endDate}

\* C14: for a monthly weekdayOfMonth rule the result is, in ascending order,
\* the n-th (or last) w-day of every month within the bounds that has one,
\* cut after maxOccurrences dates when that is set: a month without the
\* requested occurrence gives no date and does not count, and occurrence 5
\* over twelve months gives fewer than 12 dates
C14_NthWeekdayOfEveryMonth ==
    (gen.called /\ gen.options.rule.monthlyPattern.type = "weekdayOfMonth") =>
        LET o   == gen.options
            pt  == o.rule.monthlyPattern
            all == SetToSeq(nthWeekdaysWithin(o, pt.weekday, pt.occurrence))
            n   == IF o.maxOccurrences # 0
                   THEN Min(o.maxOccurrences, Len(all)) ELSE Len(all)
        IN  /\ gen.result = SubSeq(all, 1, n)
            /\ (pt.occurrence = 5 /\ monthNumber(untilDate(o)) - monthNumber(o.startDate) <= 12)
                 => Len(gen.result) < 12

\* C14 witness: a 5th-Friday rule over twelve months without an end date,
\* stopped by maxOccurrences after dates that are more than a month apart
C14_Witness ==
    /\ gen.called
    /\ gen.options.rule = WeekdayOfMonthRule(5, 5)
    /\ gen.options.generateUntil = addMonthsToDateString(gen.options.startDate, 12)
    /\ gen.options.endDate = 0
    /\ gen.options.maxOccurrences >= 3
    /\ Len(gen.result) = gen.options.maxOccurrences
    /\ monthNumber(gen.result[2]) - monthNumber(gen.result[1]) > 1

\* The orderings of the entries of an array
orderings(days) ==
    {[i \in 1..Len(days) |-> days[f[i]]] : f \in Permutations(1..Len(days))}

\* The Sunday that starts the week of a date, as a day number
weekOf(dateStr) ==
    dayNumber(dateStr) - getUTCDay(dayNumber(dateStr))

\* C15: for a weekly or biweekly rule with days of the week, every ordering
\* of daysOfWeek gives the list the call returned, and the dates of one week
\* follow each other in ascending calendar order
C15_DayOrderIrrelevant ==
    ( /\ gen.called
      /\ gen.options.rule.frequency \in {"weekly", "biweekly"}
      /\ Len(gen.options.rule.daysOfWeek) > 0 ) =>
        /\ \A days \in orderings(gen.options.rule.daysOfWeek) :
              generateOccurrences([gen.options EXCEPT !.rule.daysOfWeek = days])
                  = gen.result
        /\ \A i \in 1..Len(gen.result) : \A j \in 1..Len(gen.result) :
              (i < j /\ weekOf(gen.result[i]) = weekOf(gen.result[j])) =>
                  dayNumber(gen.result[i]) < dayNumber(gen.result[j])

\* C15 witness: the days were supplied in descending order and the call
\* returned two dates of one week
C15_Witness ==
    /\ gen.called
    /\ gen.options.rule.daysOfWeek = <<4, 2>>
    /\ Len(gen.result) >= 3
    /\ weekOf(gen.result[1]) = weekOf(gen.result[2])
    /\ getUTCDay(dayNumber(gen.result[1])) = 2
    /\ getUTCDay(dayNumber(gen.result[2])) = 4

\* C16: for a weekly or biweekly rule without days of the week the result is
\* startDate, startDate + 7 days (14 for biweekly) and so on, all on
\* startDate's weekday, and it is not empty when startDate is not after
\* endDate (when set) and not after generateUntil
C16_NoDaysStepsFromStart ==
    ( /\ gen.called
      /\ gen.options.rule.frequency \in {"weekly", "biweekly"}
      /\ Len(gen.options.rule.daysOfWeek) = 0 ) =>
        LET o     == gen.options
            days  == IF o.rule.frequency = "biweekly" THEN 14 ELSE 7
        IN  /\ \A i \in 1..Len(gen.result) :
                  /\ dayNumber(gen.result[i]) = dayNumber(o.startDate) + (i - 1) * days
                  /\ getUTCDay(dayNumber(gen.result[i])) = getUTCDay(dayNumber(o.startDate))
            /\ ((o.endDate = 0 \/ o.startDate <= o.endDate)
                    /\ o.startDate <= untilDate(o))
                 => (Len(gen.result) >= 1 /\ gen.result[1] = o.startDate)

\* C16 witness: a biweekly rule with an empty daysOfWeek returned three
\* dates or more, across the end of a month
C16_Witness ==
    /\ gen.called
    /\ gen.options.rule = WeeklyRule("biweekly", <<>>)
    /\ Len(gen.result) >= 3
    /\ gen.result[1] = gen.options.startDate
    /\ monthNumber(gen.result[3]) > monthNumber(gen.result[1])

\* Length of a month of the Gregorian calendar (month 0-indexed)
calendarMonthLength(year, month) ==
    IF month = 1
    THEN IF (year % 4 = 0 /\ year % 100 # 0) \/ year % 400 = 0 THEN 29 ELSE 28
    ELSE IF month \in {3, 5, 8, 10} THEN 30 ELSE 31

\* Day min(d, length of the month) of the months from startDate's month to
\* generateUntil's month, where it lies within startDate, endDate (when
\* set) and generateUntil
clampedDaysWithin(o, d) ==
    {c \in {formatDateString(k \div 12, k % 12,
                             Min(d, calendarMonthLength(k \div 12, k % 12))) :
               k \in monthNumber(o.startDate)..monthNumber(untilDate(o))} :
        /\ c >= o.startDate
        /\ c <= untilDate(o)
        /\ o.endDate # 0 => c <= o.endDate}

\* C22: for a monthly dayOfMonth rule with day d the result is, in
\* ascending order, day min(d, length of the month) of every month from
\* startDate's month on, without a first-month date before startDate, up to
\* endDate, generateUntil and maxOccurrences dates
C22_DayOfMonthEveryMonth ==
    (gen.called /\ gen.options.rule.monthlyPattern.type = "dayOfMonth") =>
        LET o   == gen.options
            all == SetToSeq(clampedDaysWithin(o, o.rule.monthlyPattern.day))
            n   == IF o.maxOccurrences # 0
                   THEN Min(o.maxOccurrences, Len(all)) ELSE Len(all)
        IN  gen.result = SubSeq(all, 1, n)

\* C22 witness: day 31 from a January 31st of a leap year gave Feb 29,
\* Mar 31 and Apr 30
C22_Witness ==
    /\ gen.called
    /\ gen.options.rule = DayOfMonthRule(31)
    /\ gen.options.startDate = 20280131
    /\ Len(gen.result) >= 4
    /\ gen.result[2] = 20280229
    /\ gen.result[4] = 20280430

\* C27: with the same rule, startDate, endDate and maxOccurrences, the
\* result for a horizon H1 is a prefix of the result for any horizon
\* H2 >= H1
C27_LongerHorizonAppends ==
    gen.called =>
        \A H1 \in GenUntilDates(gen.options.startDate) :
            (H1 # 0 /\ gen.options.generateUntil # 0 /\ H1 <= gen.options.generateUntil) =>
                LET shorter == generateOccurrences([gen.options EXCEPT !.generateUntil = H1])
                IN  /\ Len(shorter) <= Len(gen.result)
                    /\ SubSeq(gen.result, 1, Len(shorter)) = shorter

\* Weekly on Tuesday and Thursday for a year, with a shorter horizon of two
\* weeks that yields some of the dates but not all
C27_Witness ==
    /\ gen.called
    /\ gen.options = Options(WeeklyRule("weekly", <<4, 2>>), 20260106, 0, 0, 20270106)
    /\ LET shorter == generateOccurrences([gen.options EXCEPT !.generateUntil = 20260120])
       IN  /\ Len(shorter) >= 2
           /\ Len(shorter) < Len(gen.result)
           /\ SubSeq(gen.result, 1, Len(shorter)) = shorter

\* The date d is one the rule of the options asks for: for weekly and
\* biweekly rules its weekday is one of daysOfWeek (the weekday of startDate
\* when there are none) and its week is a whole number of steps after the
\* week of startDate; for monthly rules it is the pattern's date of its month
matchesRule(o, d) ==
    LET rule == o.rule
        p    == parseDateString(d)
        wd   == getUTCDay(dayNumber(d))
        step == IF rule.frequency = "biweekly" THEN 2 ELSE 1
        pt   == rule.monthlyPattern
    IN  IF rule.frequency \in {"weekly", "biweekly"}
        THEN /\ IF Len(rule.daysOfWeek) > 0
                THEN \E i \in 1..Len(rule.daysOfWeek) : rule.daysOfWeek[i] = wd
                ELSE wd = getUTCDay(dayNumber(o.startDate))
             /\ ((weekOf(d) - weekOf(o.startDate)) \div 7) % step = 0
        ELSE IF pt.type = "dayOfMonth"
             THEN p.day = Min(pt.day, calendarMonthLength(p.year, p.month))
             ELSE /\ pt.type = "weekdayOfMonth"
                  /\ dayIsNthWeekday(p.year, p.month, p.day, pt.weekday, pt.occurrence)

\* min(endDate, generateUntil), endDate counting when it is set
lastDayWithin(o) ==
    IF o.endDate # 0 THEN Min(o.endDate, untilDate(o)) ELSE untilDate(o)

\* C28: with maxOccurrences unset, every date from startDate to
\* min(endDate, generateUntil), both included, that matches the rule is in
\* the result
C28_NothingOmittedWithinBounds ==
    (gen.called /\ gen.options.maxOccurrences = 0) =>
        LET o == gen.options
        IN  \A k \in 0..(dayNumber(lastDayWithin(o)) - dayNumber(o.startDate)) :
                LET d == addDaysToDateString(o.startDate, k)
                IN  matchesRule(o, d) =>
                        \E i \in 1..Len(gen.result) : gen.result[i] = d

\* C28 witness: weekly on Tuesday and Thursday, the horizon being a Tuesday
\* two weeks after the start, which is the last date returned
C28_Witness ==
    /\ gen.called
    /\ gen.options = Options(WeeklyRule("weekly", <<2, 4>>), 20260106, 0, 0, 20260120)
    /\ matchesRule(gen.options, gen.options.generateUntil)
    /\ gen.result = <<20260106, 20260108, 20260113, 20260115, 20260120>>

\* C23: after the call the rule passed in options is as it was before the
\* call: its daysOfWeek has the same elements in the same order
C23_RuleUnchanged ==
    gen.called =>
        /\ gen.ruleAfter = gen.options.rule
        /\ gen.ruleAfter.daysOfWeek = gen.options.rule.daysOfWeek

----------------------------------------------------------------------------
(* A single call of addMonthsToDateString; gen holds its arguments and     *)
(* its result                                                              *)

MaxMonths == 14

AddMonthsDates ==
    {20250131, 20240131, 20231231, 20240229, 20260315, 20251130, 20260831, 20270101}

AddMonthsInit ==
    /\ StoreInit
    /\ gen \in {[called |-> FALSE, dateStr |-> d, months |-> n, result |-> 0] :
                   d \in AddMonthsDates, n \in (0 - MaxMonths)..MaxMonths}

AddMonthsCall ==
    /\ ~gen.called
    /\ gen' = [gen EXCEPT !.called = TRUE,
                          !.result = addMonthsToDateString(gen.dateStr, gen.months)]
    /\ UNCHANGED storeVars

AddMonthsNext == AddMonthsCall

SpecAddMonths == AddMonthsInit /\ [][AddMonthsNext]_vars

\* C19: addMonthsToDateString(d, n) is the date in the month n months after
\* d's month, across year boundaries and for negative n, on d's day of the
\* month or on the last day of the target month when that is shorter;
\* 2025-01-31 plus 1 month is 2025-02-28, 2024-01-31 plus 1 month 2024-02-29
C19_AddMonthsClamps ==
    /\ gen.called =>
          LET p == parseDateString(gen.dateStr)
              r == parseDateString(gen.result)
          IN  /\ monthNumber(gen.result) = monthNumber(gen.dateStr) + gen.months
              /\ r.month \in 0..11
              /\ r.day = Min(p.day, calendarMonthLength(r.year, r.month))
    /\ addMonthsToDateString(20250131, 1) = 20250228
    /\ addMonthsToDateString(20240131, 1) = 20240229

\* C19 witness: 2025-01-31 plus 1 month was computed and gave 2025-02-28
C19_Witness ==
    /\ gen.called
    /\ gen.dateStr = 20250131
    /\ gen.months = 1
    /\ gen.result = 20250228

----------------------------------------------------------------------------
(* A call of generateOccurrences followed one loop iteration at a time;    *)
(* gen holds the options, the locals and the number of iterations begun    *)

\* Iterations a call is followed for
MaxIterations == 600

LoopRules ==
    { WeeklyRule("weekly", <<3>>),
      WeeklyRule("biweekly", <<5, 1>>),
      WeeklyRule("weekly", <<>>),
      WeeklyRule("biweekly", <<>>),
      WeeklyRule("daily", <<>>),
      DayOfMonthRule(31),
      MonthlyNoPattern,
      WeekdayOfMonthRule(1, 6),
      WeekdayOfMonthRule(5, 5) }

LoopStartDates == {20260107, 20261215}

\* The latest date a date string can name
FarDate == 99991231

LoopOptions ==
    UNION { { Options(rule, startDate, endDate, maxOccurrences, generateUntil) :
                rule \in LoopRules,
                endDate \in {0, addMonthsToDateString(startDate, 2)},
                maxOccurrences \in {0, GenMaxCount},
                generateUntil \in {addMonthsToDateString(startDate, 3), FarDate} } :
            startDate \in LoopStartDates }

LoopInit ==
    /\ StoreInit
    /\ gen \in {[called |-> FALSE, options |-> o, result |-> <<>>,
                  ruleAfter |-> o.rule, st |-> loopEntry(o), iterations |-> 0] :
                   o \in LoopOptions}

\* One iteration of the while loop
LoopStep ==
    /\ ~gen.called
    /\ ~gen.st.done
    /\ gen.iterations < MaxIterations
    /\ gen' = [gen EXCEPT !.st = loopIteration(gen.options, gen.st),
                          !.iterations = gen.iterations + 1]
    /\ UNCHANGED storeVars

\* return occurrences, from inside the loop or after a break
LoopReturn ==
    /\ ~gen.called
    /\ gen.st.done
    /\ gen' = [gen EXCEPT !.called = TRUE, !.result = gen.st.occurrences,
                          !.ruleAfter = gen.st.rule]
    /\ UNCHANGED storeVars

LoopNext == LoopStep \/ LoopReturn

SpecLoop == LoopInit /\ [][LoopNext]_vars

\* ENABLED <<LoopNext>>_vars: every iteration begun is counted and the return
\* sets called, so LoopNext changes gen whenever one of its guards holds
LoopNextEnabled ==
    ~gen.called /\ (gen.st.done \/ gen.iterations < MaxIterations)

\* The call is not suspended: weak fairness of LoopNext, that is
\* WF_vars(LoopNext) with its ENABLED written as the state predicate above
SpecLoopFair ==
    SpecLoop /\ ([]<>(~LoopNextEnabled) \/ []<><<LoopNext>>_vars)

\* C17: every call of generateOccurrences returns, with the dates collected
\* so far when it is a safety limit that ends the loop
C17_GeneratorTerminates ==
    <>(gen.called /\ gen.result = gen.st.occurrences)

\* C17 witness: a call with no end date, no maxOccurrences and a far
\* generateUntil, on an occurrence that no month has, returned an empty list
\* after the monthly loop ran into its safety limit
C17_Witness ==
    /\ gen.called
    /\ gen.options.rule = WeekdayOfMonthRule(1, 6)
    /\ gen.options.endDate = 0
    /\ gen.options.maxOccurrences = 0
    /\ gen.options.generateUntil = FarDate
    /\ gen.result = <<>>
    /\ gen.st.year - parseDateString(gen.options.startDate).year > SafetyYears

\* C18: a weekly or biweekly call runs at most 520 loop iterations, and a
\* monthly call visits only months of the 10 calendar years that begin with
\* startDate's year
C18_IterationCeilings ==
    /\ gen.options.rule.frequency \in {"weekly", "biweekly"} =>
          gen.iterations <= SafetyLimit
    /\ (gen.options.rule.frequency = "monthly" /\ ~gen.st.done) =>
          gen.st.year - parseDateString(gen.options.startDate).year < SafetyYears

====
